---- MODULE Spec2Model ----
(***************************************************************************)
(* A model of plank's binding-graph initialisation                         *)
(* (src/src/generate/bind_graph_init.rs) and of its emitter                *)
(* (src/src/generate/emit.rs).                                             *)
(*                                                                         *)
(* Graph initialisation: `init` walks the module cache; for every module   *)
(* a NodeInitSession walks the top-level items of the module in source     *)
(* order and fills two scopes, two rooted sets and two ordered edge lists, *)
(* which are then inserted into the graph under the module's path.         *)
(*                                                                         *)
(* Emission: `traverse` walks the typed graph from the root with an        *)
(* explicit stack and a visited set; `emit` then writes the JSON file and  *)
(* the JS shim.                                                            *)
(***************************************************************************)
EXTENDS Integers, Sequences, FiniteSets, TLC

(***************************************************************************)
(* Bounds of the model.                                                    *)
(***************************************************************************)
\* The total size of the module ASTs of a cache: the number of import
\* specifiers, export specifiers, declarators and other statements.
MaxSize == 2

\* The number of export edges of the typed graph handed to the emitter, over
\* all its modules.
MaxEdges == 3

(***************************************************************************)
(* The input universe.                                                     *)
(***************************************************************************)
\* JsWord: the identifiers of the modules.
Names == {"A", "B"}

\* CanonPath: the canonical paths of the modules of the cache.
Paths == {"a", "b"}

\* The import-specifier strings as written in the sources.
Specifiers == {"./a", "./b"}

\* Option::None for an alias, a `from` clause, a declaration.
NoName == "-"
NoSrc == "-"
NoDecl == [kind |-> "None", ident |-> NoName, decls |-> << >>]

\* swc_common::Span: where a node is in its module, here the index of the
\* top-level item and the index of the specifier in it (0: the statement).
Span(idx, k) == <<idx, k>>

\* ImportSpecifier (swc_ecma_ast), as handle_import_specifier matches it.
ImportSpecifiers ==
  {x \in [kind : {"Named"}, local : Names, imported : {NoName} \cup Names] :
     x.imported # x.local}
    \cup [kind : {"Default", "Namespace"}, local : {"A"}, imported : {NoName}]

\* ExportSpecifier (swc_ecma_ast), as prune_export_specifiers matches it.
ExportSpecifiers ==
  {x \in [kind : {"Named"}, orig : Names, exported : {NoName} \cup Names] :
     x.exported # x.orig}
    \cup [kind : {"Namespace", "Default"}, orig : {"A"}, exported : {NoName}]

\* Pat of a variable declarator: an identifier, or any other pattern.
Declarators ==
  [pat : {"Ident"}, sym : Names] \cup [pat : {"Other"}, sym : {NoName}]

\* The sequences over S of length 1 .. n.
RECURSIVE SeqsUpTo(_, _)
SeqsUpTo(S, n) ==
  IF n <= 0 THEN {}
  ELSE {<<x>> : x \in S}
         \cup {Append(q, x) : q \in SeqsUpTo(S, n - 1), x \in S}

\* Decl (swc_ecma_ast), as process_decl matches it.
Decls(n) ==
  [kind : {"Class", "Fn", "TsInterface", "TsTypeAlias", "TsEnum"},
   ident : Names, decls : {<< >>}]
    \cup [kind : {"Var"}, ident : {NoName}, decls : SeqsUpTo(Declarators, n)]
    \cup [kind : {"TsModule"}, ident : {"A"}, decls : {<< >>}]

\* ModuleItem (swc_ecma_ast): the top-level items that reach graph
\* initialisation, of size at most n.  Default exports, `export =`,
\* `import =` and namespace exports are caught when the cache is built
\* (bind_graph_init.rs:235-243).
ModuleItems(n) ==
  [type : {"Import"}, src : Specifiers,
   specifiers : SeqsUpTo(ImportSpecifiers, n), decl : {NoDecl}]
    \cup [type : {"ExportNamed"}, src : Specifiers \cup {NoSrc},
          specifiers : SeqsUpTo(ExportSpecifiers, n), decl : {NoDecl}]
    \cup [type : {"ExportAll"}, src : Specifiers,
          specifiers : {<< >>}, decl : {NoDecl}]
    \cup [type : {"ExportDecl"}, src : {NoSrc},
          specifiers : {<< >>}, decl : Decls(n)]
    \cup [type : {"Stmt"}, src : {NoSrc},
          specifiers : {<< >>}, decl : Decls(n) \cup {NoDecl}]

\* The size of an item: its specifiers or declarators, at least one.
ItemSize(item) ==
  LET k == Len(item.specifiers) + Len(item.decl.decls)
  IN  IF k = 0 THEN 1 ELSE k

\* ModuleData.dependencies: specifier string -> canonical path.  Every
\* specifier a module names is resolved when the cache is built; the modules
\* of the cache lie in one directory.
Dependencies == [x \in Specifiers |-> IF x = "./a" THEN "a" ELSE "b"]

\* ModuleData of the module at a path.
ModuleData(p) == [path |-> p, dependencies |-> Dependencies]

(***************************************************************************)
(* structures::ItemState and the edges of the graph.                       *)
(***************************************************************************)
\* An absent key of a scope (HashMap::get gives None).
Vacant == [tag |-> "Vacant", source |-> NoSrc, src_key |-> NoName,
           as_key |-> NoName]

Rooted == [tag |-> "Rooted", source |-> NoSrc, src_key |-> NoName,
           as_key |-> NoName]

Imported(source, src_key, as_key) ==
  [tag |-> "Imported", source |-> source, src_key |-> src_key,
   as_key |-> as_key]

ImportNamed(source, src_key) ==
  [variant |-> "Named", source |-> source, src_key |-> src_key]

ExportNamed(source, src_key, export_key) ==
  [variant |-> "Named", source |-> source, src_key |-> src_key,
   export_key |-> export_key]

ExportAll(source) ==
  [variant |-> "All", source |-> source, src_key |-> NoName,
   export_key |-> NoName]

export_source(edge) == edge.source

\* BindGenError { module_path, kind: UnsupportedFeature(feature), span }.
BindGenError(module_path, feature, span) ==
  [module_path |-> module_path, kind |-> "UnsupportedFeature",
   feature |-> feature, span |-> span]

NoError == [module_path |-> NoSrc, kind |-> "None", feature |-> "None",
            span |-> << >>]

(***************************************************************************)
(* NodeInitSession.                                                        *)
(***************************************************************************)
NoSession == [path |-> NoSrc]

\* The session NodeInitSession::init starts with.
NewSession(module_data) ==
  [path |-> module_data.path,
   dependency_map |-> module_data.dependencies,
   import_edges |-> << >>,
   export_edges |-> << >>,
   rooted_values |-> {},
   rooted_types |-> {},
   value_scope |-> [n \in Names |-> Vacant],
   type_scope |-> [n \in Names |-> Vacant]]

\* What a Result<(), BindGenError> of a session method is, with the session
\* as the method left it.  "Panic": the method did not return (todo!()).
Ok(s) == [status |-> "Ok", session |-> s, error |-> NoError]
Err(s, e) == [status |-> "Err", session |-> s, error |-> e]
Panic(s) == [status |-> "Panic", session |-> s, error |-> NoError]

\* Entry with HashMap::insert in place of the match on the entry: the last
\* declaration wins.
Entry_insert(scope, name, state) == [scope EXCEPT ![name] = state]

\* Entry::Vacant => insert, Entry::Occupied => ().
Entry(scope, name, state) ==
  IF scope[name] = Vacant THEN [scope EXCEPT ![name] = state] ELSE scope

scope_item(s, name, state, kind) ==
  CASE kind = "Value" ->
         [s EXCEPT !.value_scope = Entry(s.value_scope, name, state)]
    [] kind = "Type" ->
         [s EXCEPT !.type_scope = Entry(s.type_scope, name, state)]
    [] kind = "ValueType" ->
         [s EXCEPT !.type_scope = Entry(s.type_scope, name, state),
                   !.value_scope = Entry(s.value_scope, name, state)]

\* The macro get_dep_src!(self, src): the canonical path of a specifier.
get_dep_src(s, src) == s.dependency_map[src]

handle_import_specifier(s, source, spec, span) ==
  CASE spec.kind = "Named" ->
         LET src_key == IF spec.imported # NoName THEN spec.imported
                        ELSE spec.local
             as_key == spec.local
             pushed == [s EXCEPT !.import_edges =
                          Append(@, ImportNamed(source, src_key))]
             item == Imported(source, src_key, as_key)
             import_key == spec.local
         IN  Ok(scope_item(pushed, import_key, item, "ValueType"))
    [] spec.kind = "Default" ->
         Err(s, BindGenError(s.path, "DefaultImport", span))
    [] spec.kind = "Namespace" ->
         Err(s, BindGenError(s.path, "DefaultImport", span))

\* for specifier in import.specifiers.iter() { handle_import_specifier(..)? }
RECURSIVE import_specifiers(_, _, _, _, _)
import_specifiers(s, source, specifiers, idx, k) ==
  IF k > Len(specifiers) THEN Ok(s)
  ELSE LET r == handle_import_specifier(s, source, specifiers[k],
                                        Span(idx, k))
       IN  IF r.status # "Ok" THEN r
           ELSE import_specifiers(r.session, source, specifiers, idx, k + 1)

\* The buffer prune_export_specifiers builds, or its error: a namespace
\* specifier fails with its own span, a default specifier with the span of
\* the export statement.
RECURSIVE prune_export_specifiers(_, _, _, _)
prune_export_specifiers(s, specifiers, idx, k) ==
  IF k > Len(specifiers) THEN Ok(s)
  ELSE CASE specifiers[k].kind = "Named" ->
              prune_export_specifiers(s, specifiers, idx, k + 1)
         [] specifiers[k].kind = "Namespace" ->
              Err(s, BindGenError(s.path, "NamespaceExport", Span(idx, k)))
         [] specifiers[k].kind = "Default" ->
              Err(s, BindGenError(s.path, "DefaultExport", Span(idx, 0)))

\* exported_as.map(|x| x.sym).unwrap_or(orig_key)
export_key_of(spec) ==
  IF spec.exported # NoName THEN spec.exported ELSE spec.orig

\* export_from_specifier without the alias: the edge is exported under the
\* original name.
export_from_specifier_no_alias(s, src_canon_path, spec) ==
  [s EXCEPT !.export_edges =
     Append(@, ExportNamed(src_canon_path, spec.orig, spec.orig))]

\* One specifier of `export { .. } from "m"` (lines 297-313).
export_from_specifier(s, src_canon_path, spec) ==
  LET orig_key == spec.orig
      export_key == export_key_of(spec)
  IN  [s EXCEPT !.export_edges =
         Append(@, ExportNamed(src_canon_path, orig_key, export_key))]

\* export_local_value marking the original name, not the export key.
export_local_value_orig(s, orig_key, export_key) ==
  LET state == s.value_scope[orig_key]
  IN  CASE state.tag = "Imported" ->
             [s EXCEPT !.export_edges =
                Append(@, ExportNamed(state.source, state.src_key,
                                      state.as_key))]
        [] state.tag = "Rooted" ->
             [s EXCEPT !.rooted_values = @ \cup {orig_key}]
        [] OTHER -> s

\* The value half of one specifier of `export { .. }` (lines 341-359).
export_local_value(s, orig_key, export_key) ==
  LET state == s.value_scope[orig_key]
  IN  CASE state.tag = "Imported" ->
             [s EXCEPT !.export_edges =
                Append(@, ExportNamed(state.source, state.src_key,
                                      state.as_key))]
        [] state.tag = "Rooted" ->
             [s EXCEPT !.rooted_values = @ \cup {export_key}]
        [] OTHER -> s

\* A type half that roots the export key of a name the scope does not hold.
export_local_type_unscoped(s, orig_key, export_key) ==
  LET state == s.type_scope[orig_key]
  IN  CASE state.tag = "Imported" ->
             [s EXCEPT !.export_edges =
                Append(@, ExportNamed(state.source, state.src_key,
                                      state.as_key))]
        [] OTHER ->
             [s EXCEPT !.rooted_types = @ \cup {export_key}]

\* The type half of one specifier of `export { .. }` (lines 362-380).
export_local_type(s, orig_key, export_key) ==
  LET state == s.type_scope[orig_key]
  IN  CASE state.tag = "Imported" ->
             [s EXCEPT !.export_edges =
                Append(@, ExportNamed(state.source, state.src_key,
                                      state.as_key))]
        [] state.tag = "Rooted" ->
             [s EXCEPT !.rooted_types = @ \cup {export_key}]
        [] OTHER -> s

\* One specifier of `export { .. }` without `from` (lines 325-381).
export_local_specifier(s, spec) ==
  LET orig_key == spec.orig
      export_key == export_key_of(spec)
  IN  export_local_type(export_local_value(s, orig_key, export_key),
                        orig_key, export_key)

\* for spec in specifiers { .. } of either arm of process_named_export.
RECURSIVE export_specifiers(_, _, _, _)
export_specifiers(s, src, specifiers, k) ==
  IF k > Len(specifiers) THEN s
  ELSE export_specifiers(
         IF src # NoSrc
         THEN export_from_specifier(s, get_dep_src(s, src), specifiers[k])
         ELSE export_local_specifier(s, specifiers[k]),
         src, specifiers, k + 1)

process_named_export(s, exp, idx) ==
  LET pruned == prune_export_specifiers(s, exp.specifiers, idx, 1)
  IN  IF pruned.status # "Ok" THEN pruned
      ELSE Ok(export_specifiers(s, exp.src, exp.specifiers, 1))

\* scope_kind_of with an interface taken for a class.
scope_kind_of_interface_as_class(decl) ==
  CASE decl.kind \in {"Class", "TsInterface"} -> "ValueType"
    [] decl.kind \in {"Fn", "Var"} -> "Value"
    [] decl.kind \in {"TsTypeAlias", "TsEnum"} -> "Type"

\* The scope kind process_decl gives a declaration.
scope_kind_of(decl) ==
  CASE decl.kind = "Class" -> "ValueType"
    [] decl.kind \in {"Fn", "Var"} -> "Value"
    [] decl.kind \in {"TsInterface", "TsTypeAlias", "TsEnum"} -> "Type"

\* The symbols process_decl takes from a declaration.
symbols_of(decl) ==
  IF decl.kind = "Var"
  THEN [i \in 1 .. Len(decl.decls) |-> decl.decls[i].sym]
  ELSE <<decl.ident>>

\* One symbol of process_decl's loop (lines 432-457).
decl_symbol(s, symbol, scope_kind, export) ==
  LET marked ==
        IF ~export THEN s
        ELSE CASE scope_kind = "Value" ->
                    [s EXCEPT !.rooted_values = @ \cup {symbol}]
               [] scope_kind = "Type" ->
                    [s EXCEPT !.rooted_types = @ \cup {symbol}]
               [] scope_kind = "ValueType" ->
                    [s EXCEPT !.rooted_types = @ \cup {symbol},
                              !.rooted_values = @ \cup {symbol}]
  IN  scope_item(marked, symbol, Rooted, scope_kind)

RECURSIVE decl_symbols(_, _, _, _, _)
decl_symbols(s, symbols, scope_kind, export, k) ==
  IF k > Len(symbols) THEN s
  ELSE decl_symbols(decl_symbol(s, symbols[k], scope_kind, export),
                    symbols, scope_kind, export, k + 1)

\* todo!() on a TS module and on a declarator that is no identifier.
process_decl(s, decl, export) ==
  IF decl.kind = "TsModule" THEN Panic(s)
  ELSE IF decl.kind = "Var"
          /\ \E i \in 1 .. Len(decl.decls) : decl.decls[i].pat # "Ident"
  THEN Panic(s)
  ELSE Ok(decl_symbols(s, symbols_of(decl), scope_kind_of(decl), export, 1))

process_stmt(s, stmt) ==
  IF stmt.decl # NoDecl THEN process_decl(s, stmt.decl, FALSE) ELSE Ok(s)

process_import(s, import, idx) ==
  LET src_canon_path == get_dep_src(s, import.src)
  IN  import_specifiers(s, src_canon_path, import.specifiers, idx, 1)

\* process_export_all putting the All edge before the edges pushed so far.
process_export_all_front(s, src) ==
  LET dep_canon_path == get_dep_src(s, src)
  IN  Ok([s EXCEPT !.export_edges = <<ExportAll(dep_canon_path)>> \o @])

process_export_all(s, src) ==
  LET dep_canon_path == get_dep_src(s, src)
  IN  Ok([s EXCEPT !.export_edges = Append(@, ExportAll(dep_canon_path))])

process_module_decl(s, module_decl, idx) ==
  CASE module_decl.type = "Import" -> process_import(s, module_decl, idx)
    [] module_decl.type = "ExportDecl" ->
         process_decl(s, module_decl.decl, TRUE)
    [] module_decl.type = "ExportNamed" ->
         process_named_export(s, module_decl, idx)
    [] module_decl.type = "ExportAll" ->
         process_export_all(s, module_decl.src)

process_module_item(s, item, idx) ==
  IF item.type = "Stmt" THEN process_stmt(s, item)
  ELSE process_module_decl(s, item, idx)

(***************************************************************************)
(* The state of graph initialisation.                                      *)
(***************************************************************************)
VARIABLES
  cache,     \* the module cache: canonical path -> ModuleData
  pending,   \* the modules `init` has not reached yet in cache.iter()
  graph,     \* ModuleGraph: nodes, export_edges, import_edges
  session,   \* the NodeInitSession init is in, or NoSession
  item,      \* the top-level item the session processed last
  idx,       \* the index of that item in the body of its module
  size,      \* the size of the items processed so far, over all modules
  result,    \* of init: "running", "ok", "err", "panic"
  error      \* the BindGenError init returned

initVars == <<cache, pending, graph, session, item, idx, size, result, error>>

(***************************************************************************)
(* The state of emission.                                                  *)
(***************************************************************************)
VARIABLES
  typed_graph,   \* typify_graph::ModuleGraph: nodes and export_edges
  options,       \* CompileOpt.emit_config: which artifacts are emitted
  stack,         \* traverse: the stack of paths
  visited,       \* traverse: the visited set
  json_output,   \* Context.json_output: the exports handed to it, in order
  js_output,     \* Context.js_output: the exports handed to it, in order
  files,         \* the output directory: the state of the two artifacts
  pc,            \* where emit is
  emit_result    \* of emit: "running", "ok", "err"

emitVars == <<typed_graph, options, stack, visited, json_output, js_output,
              files, pc, emit_result>>

(***************************************************************************)
(* The state of the pipeline driver.                                       *)
(***************************************************************************)
VARIABLES
  driver,        \* which driver runs: "gen" (generate.rs), "main" (main.rs)
  compile_opt,   \* CompileOpt: ts_flavor and emit_config
  stage,         \* the stage the driver is about to run, or "exit"
  started,       \* the stages started so far, in order
  succeeded,     \* the stages that returned Ok
  diagnostic,    \* what the driver printed to standard error
  exit_code      \* the exit code of the process, "running" before it ends

pipeVars == <<driver, compile_opt, stage, started, succeeded, diagnostic,
              exit_code>>

(***************************************************************************)
(* The state of the comparison of processing orders: a whole cache and     *)
(* the outcome of init for each order of cache.iter() tried so far.        *)
(***************************************************************************)
VARIABLES
  bodies,        \* path -> the module's body (ModuleData::ast)
  runs           \* processing order -> what init returned

orderVars == <<bodies, runs>>

(***************************************************************************)
(* The state of a ModuleInfo under its export and merge operations.        *)
(***************************************************************************)
VARIABLES
  module_info,   \* self
  other_info,    \* the `other` of the last merge, NoInfo before one
  call,          \* the method called last
  merge_result   \* "ok", or "panic" after a merge_export of an unknown key

mergeVars == <<module_info, other_info, call, merge_result>>

auxVars == <<orderVars, mergeVars>>

vars == <<initVars, emitVars, pipeVars, auxVars>>

NoItem == [type |-> "None", src |-> NoSrc, specifiers |-> << >>,
           decl |-> NoDecl]

\* HashMap::insert.
Insert(f, k, v) == [x \in DOMAIN f \cup {k} |-> IF x = k THEN v ELSE f[x]]

ModuleNode(path, rooted_export_types, rooted_export_values) ==
  [path |-> path, rooted_export_types |-> rooted_export_types,
   rooted_export_values |-> rooted_export_values]

EmptyGraph == [nodes |-> << >>, export_edges |-> << >>, import_edges |-> << >>]

\* insert_session keeping no node for a module without rooted exports.
insert_session_rooted_only(g, s) ==
  [nodes |-> IF s.rooted_types \cup s.rooted_values = {} THEN g.nodes
             ELSE Insert(g.nodes, s.path,
                         ModuleNode(s.path, s.rooted_types, s.rooted_values)),
   export_edges |-> Insert(g.export_edges, s.path, s.export_edges),
   import_edges |-> Insert(g.import_edges, s.path, s.import_edges)]

\* The end of NodeInitSession::init: the session's results enter the graph.
insert_session(g, s) ==
  [nodes |-> Insert(g.nodes, s.path,
                    ModuleNode(s.path, s.rooted_types, s.rooted_values)),
   export_edges |-> Insert(g.export_edges, s.path, s.export_edges),
   import_edges |-> Insert(g.import_edges, s.path, s.import_edges)]

(***************************************************************************)
(* The typed graph handed to the emitter.                                  *)
(***************************************************************************)
\* cache.root, the root module, and the modules of the typed graph.
Root == "r"

TypedPaths == {Root} \cup Paths

\* A reduced export edge of the typed graph.
ExportNamedType(source, src_key, export_key) ==
  [variant |-> "NamedType", source |-> source, src_key |-> src_key,
   export_key |-> export_key]

\* Type: a descriptor, of which the model keeps the origin module.
Type(origin) == [origin |-> origin]

\* A typed module node: the rooted sets are maps export key -> Type.
TypedNode(p) ==
  [path |-> p,
   rooted_export_types |-> [k \in {"A"} |-> Type(p)],
   rooted_export_values |-> [k \in {"B"} |-> Type(p)]]

TypedEdges == {ExportNamedType(p, "A", "A") : p \in TypedPaths}

\* The export-edge maps with at most n edges in all.  Every source is a
\* module of the graph (invariant I1 of the typed graph).
RECURSIVE EdgeMaps(_)
EdgeMaps(n) ==
  IF n = 0 THEN {[p \in TypedPaths |-> << >>]}
  ELSE LET less == EdgeMaps(n - 1)
       IN  less \cup {[m EXCEPT ![p] = Append(@, e)] :
                        m \in less, p \in TypedPaths, e \in TypedEdges}

TypedGraphs ==
  {[nodes |-> [p \in TypedPaths |-> TypedNode(p)], export_edges |-> m] :
     m \in EdgeMaps(MaxEdges)}

EmitConfigs == [json : BOOLEAN, js : BOOLEAN]

NoFiles == [json |-> "absent", js |-> "absent"]

\* The state of the driver in a run of one stage on its own.
PipeIdle ==
  /\ driver = "none"
  /\ compile_opt = [ts_flavor |-> "TsNum",
                    emit_config |-> [json |-> FALSE, js |-> FALSE]]
  /\ stage = "none"
  /\ started = << >>
  /\ succeeded = {}
  /\ diagnostic = "none"
  /\ exit_code = "running"

\* No cache is under comparison.
OrderIdle ==
  /\ bodies = << >>
  /\ runs = << >>

\* A ModuleInfo without exports.
NoInfo == [exported_types |-> << >>, exported_values |-> << >>]

\* No ModuleInfo is under construction.
MergeIdle ==
  /\ module_info = NoInfo
  /\ other_info = NoInfo
  /\ call = "new"
  /\ merge_result = "ok"

AuxIdle == OrderIdle /\ MergeIdle

\* The state of emission before emit is called.
EmitIdle ==
  /\ typed_graph = [nodes |-> << >>, export_edges |-> << >>]
  /\ options = [json |-> FALSE, js |-> FALSE]
  /\ stack = << >>
  /\ visited = {}
  /\ json_output = << >>
  /\ js_output = << >>
  /\ files = NoFiles
  /\ pc = "idle"
  /\ emit_result = "running"

GraphInit ==
  /\ cache = [p \in Paths |-> ModuleData(p)]
  /\ pending = Paths
  /\ graph = EmptyGraph
  /\ session = NoSession
  /\ item = NoItem
  /\ idx = 0
  /\ size = 0
  /\ result = "running"
  /\ error = NoError
  /\ EmitIdle
  /\ PipeIdle
  /\ AuxIdle

\* init takes the next module of cache.iter() and starts its session.
SessionStart(p) ==
  /\ result = "running"
  /\ session = NoSession
  /\ p \in pending
  /\ pending' = pending \ {p}
  /\ session' = NewSession(cache[p])
  /\ item' = NoItem
  /\ idx' = 0
  /\ UNCHANGED <<cache, graph, size, result, error, emitVars, pipeVars, auxVars>>

\* session.process_module_item(item)? on the next item of the body.
ProcessItem(it) ==
  /\ result = "running"
  /\ session # NoSession
  /\ size + ItemSize(it) <= MaxSize
  /\ LET r == process_module_item(session, it, idx + 1)
     IN  /\ session' = r.session
         /\ result' = CASE r.status = "Ok" -> "running"
                        [] r.status = "Err" -> "err"
                        [] r.status = "Panic" -> "panic"
         /\ error' = r.error
  /\ item' = it
  /\ idx' = idx + 1
  /\ size' = size + ItemSize(it)
  /\ UNCHANGED <<cache, pending, graph, emitVars, pipeVars, auxVars>>

ItemsOf(type) == {it \in ModuleItems(MaxSize - size) : it.type = type}

ProcessImport == \E it \in ItemsOf("Import") : ProcessItem(it)

ProcessExportDecl == \E it \in ItemsOf("ExportDecl") : ProcessItem(it)

ProcessExportNamed == \E it \in ItemsOf("ExportNamed") : ProcessItem(it)

ProcessExportAll == \E it \in ItemsOf("ExportAll") : ProcessItem(it)

ProcessStmt == \E it \in ItemsOf("Stmt") : ProcessItem(it)

\* The body is exhausted: the node and the edge lists enter the graph.
SessionFinish ==
  /\ result = "running"
  /\ session # NoSession
  /\ graph' = insert_session(graph, session)
  /\ session' = NoSession
  /\ UNCHANGED <<cache, pending, item, idx, size, result, error, emitVars, pipeVars, auxVars>>

\* cache.iter() is exhausted: Ok(graph).
InitReturn ==
  /\ result = "running"
  /\ session = NoSession
  /\ pending = {}
  /\ result' = "ok"
  /\ UNCHANGED <<cache, pending, graph, session, item, idx, size, error,
               emitVars, pipeVars, auxVars>>

Next ==
  \/ \E p \in Paths : SessionStart(p)
  \/ ProcessImport
  \/ ProcessExportDecl
  \/ ProcessExportNamed
  \/ ProcessExportAll
  \/ ProcessStmt
  \/ SessionFinish
  \/ InitReturn

Spec == GraphInit /\ [][Next]_vars

(***************************************************************************)
(* emit and traverse.                                                      *)
(***************************************************************************)
\* The state of graph initialisation while the emitter runs.
InitIdle ==
  /\ cache = << >>
  /\ pending = {}
  /\ graph = EmptyGraph
  /\ session = NoSession
  /\ item = NoItem
  /\ idx = 0
  /\ size = 0
  /\ result = "ok"
  /\ error = NoError

\* emit is called: the contexts are new, traverse starts at the root.
EmitInit ==
  /\ InitIdle
  /\ PipeIdle
  /\ AuxIdle
  /\ typed_graph \in TypedGraphs
  /\ options \in EmitConfigs
  /\ stack = <<Root>>
  /\ visited = {}
  /\ json_output = << >>
  /\ js_output = << >>
  /\ files = NoFiles
  /\ pc = "traverse"
  /\ emit_result = "running"

\* The keys of a rooted map in the order its iterator gives them.
RECURSIVE KeysInOrder(_)
KeysInOrder(S) ==
  IF S = {} THEN << >>
  ELSE LET k == CHOOSE x \in S : TRUE IN <<k>> \o KeysInOrder(S \ {k})

\* What one output receives for a node: its types, then its values.
exports_of(node) ==
  LET types == KeysInOrder(DOMAIN node.rooted_export_types)
      values == KeysInOrder(DOMAIN node.rooted_export_values)
  IN  [i \in 1 .. Len(types) |->
         [ns |-> "type", export_key |-> types[i],
          typ |-> node.rooted_export_types[types[i]]]]
      \o [i \in 1 .. Len(values) |->
            [ns |-> "value", export_key |-> values[i],
             typ |-> node.rooted_export_values[values[i]]]]

\* A traverse that pushes the source of the first edge only.
push_edges_first(stk, edges) ==
  IF edges = << >> THEN stk ELSE Append(stk, export_source(edges[1]))

\* for edge in edges { stack.push(edge.export_source()) }
push_edges(stk, edges) ==
  stk \o [i \in 1 .. Len(edges) |-> export_source(edges[i])]

\* stack.pop()
top(stk) == stk[Len(stk)]

pop(stk) == SubSeq(stk, 1, Len(stk) - 1)

\* One turn of traverse's loop on a path that is already visited.
TraverseSkip ==
  /\ pc = "traverse"
  /\ stack # << >>
  /\ top(stack) \in visited
  /\ stack' = pop(stack)
  /\ UNCHANGED <<typed_graph, options, visited, json_output, js_output,
                 files, pc, emit_result, initVars, pipeVars, auxVars>>

\* One turn of traverse's loop on a path not visited yet.
TraverseVisit ==
  /\ pc = "traverse"
  /\ stack # << >>
  /\ top(stack) \notin visited
  /\ LET node_path == top(stack)
         node == typed_graph.nodes[node_path]
         edges == typed_graph.export_edges[node_path]
     IN  /\ visited' = visited \cup {node_path}
         /\ json_output' = IF options.json
                           THEN json_output \o exports_of(node)
                           ELSE json_output
         /\ js_output' = IF options.js
                         THEN js_output \o exports_of(node)
                         ELSE js_output
         /\ stack' = push_edges(pop(stack), edges)
  /\ UNCHANGED <<typed_graph, options, files, pc, emit_result, initVars, pipeVars, auxVars>>

\* The stack is empty: traverse returns to emit.
TraverseReturn ==
  /\ pc = "traverse"
  /\ stack = << >>
  /\ pc' = IF options.json THEN "json_create"
           ELSE IF options.js THEN "js_create" ELSE "return"
  /\ UNCHANGED <<typed_graph, options, stack, visited, json_output,
                 js_output, files, emit_result, initVars, pipeVars, auxVars>>

\* An I/O or serialisation step of emit fails: `?` returns the error.
Fail ==
  /\ pc' = "done"
  /\ emit_result' = "err"

\* File::create(json_output_path)
JsonCreate ==
  /\ pc = "json_create"
  /\ \/ /\ files' = [files EXCEPT !.json = "empty"]
        /\ pc' = "json_finalize"
        /\ UNCHANGED emit_result
     \/ /\ Fail
        /\ UNCHANGED files
  /\ UNCHANGED <<typed_graph, options, stack, visited, json_output,
                 js_output, initVars, pipeVars, auxVars>>

\* context.json_output.finalize()
JsonFinalize ==
  /\ pc = "json_finalize"
  /\ \/ /\ pc' = "json_write"
        /\ UNCHANGED emit_result
     \/ Fail
  /\ UNCHANGED <<typed_graph, options, stack, visited, json_output,
                 js_output, files, initVars, pipeVars, auxVars>>

\* file.write_all(output.as_bytes()) of the JSON artifact
JsonWrite ==
  /\ pc = "json_write"
  /\ \/ /\ files' = [files EXCEPT !.json = "written"]
        /\ pc' = IF options.js THEN "js_create" ELSE "return"
        /\ UNCHANGED emit_result
     \/ /\ Fail
        /\ files' = [files EXCEPT !.json = "partial"]
  /\ UNCHANGED <<typed_graph, options, stack, visited, json_output,
                 js_output, initVars, pipeVars, auxVars>>

\* File::create(js_output_path)
JsCreate ==
  /\ pc = "js_create"
  /\ \/ /\ files' = [files EXCEPT !.js = "empty"]
        /\ pc' = "js_write"
        /\ UNCHANGED emit_result
     \/ /\ Fail
        /\ UNCHANGED files
  /\ UNCHANGED <<typed_graph, options, stack, visited, json_output,
                 js_output, initVars, pipeVars, auxVars>>

\* file.write_all(output.as_bytes()) of the JS shim
JsWrite ==
  /\ pc = "js_write"
  /\ \/ /\ files' = [files EXCEPT !.js = "written"]
        /\ pc' = "return"
        /\ UNCHANGED emit_result
     \/ /\ Fail
        /\ files' = [files EXCEPT !.js = "partial"]
  /\ UNCHANGED <<typed_graph, options, stack, visited, json_output,
                 js_output, initVars, pipeVars, auxVars>>

\* Ok(())
EmitReturn ==
  /\ pc = "return"
  /\ pc' = "done"
  /\ emit_result' = "ok"
  /\ UNCHANGED <<typed_graph, options, stack, visited, json_output,
                 js_output, files, initVars, pipeVars, auxVars>>

EmitNext ==
  \/ TraverseSkip
  \/ TraverseVisit
  \/ TraverseReturn
  \/ JsonCreate
  \/ JsonFinalize
  \/ JsonWrite
  \/ JsCreate
  \/ JsWrite
  \/ EmitReturn

SpecEmit == EmitInit /\ [][EmitNext]_vars

\* emit runs on one thread and never waits: a step that can be taken is
\* taken.
SpecEmitFair == SpecEmit /\ WF_vars(EmitNext)

(***************************************************************************)
(* The pipeline drivers: gen (generate.rs) and main (main.rs).  A stage    *)
(* whose code the driver only calls is a step with the outcomes its        *)
(* signature allows: Ok or Err; graph initialization can also panic        *)
(* (todo!() in process_decl).                                              *)
(***************************************************************************)
Drivers == {"gen", "main"}

TsFlavors == {"TsNum", "TsFull", "TsCustom"}

CompileOpts ==
  [ts_flavor : TsFlavors, emit_config : EmitConfigs]

\* The stages in the order the claim names them.
StageOrder == <<"cache", "graph_init", "reduce", "typify", "compat", "emit">>

Stages == {StageOrder[i] : i \in DOMAIN StageOrder}

\* The eprintln! of the Err arm of each stage, per driver.
ErrorMessage(d, st) ==
  CASE st = "cache"      -> "module cache error"
    [] st = "graph_init" -> "graph init error"
    [] st = "reduce"     -> "graph reduction error"
    [] st = "typify"     -> IF d = "gen" THEN "typify error" ELSE "bind-gen error"
    [] st = "compat"     -> "Compatibility errors:"
    [] st = "emit"       -> "json-emit error"

\* What a stage call can come back with.
Outcomes(st) ==
  IF st = "graph_init" THEN {"Ok", "Err", "Panic"} ELSE {"Ok", "Err"}

\* The statement that follows the Ok arm of a stage.
AfterOk(d, opt, st) ==
  CASE st = "cache"      -> "graph_init"
    [] st = "graph_init" -> "reduce"
    [] st = "reduce"     -> "typify"
    [] st = "typify"     -> IF d = "gen" THEN "compat" ELSE "return"
    [] st = "compat"     -> IF opt.ts_flavor = "TsCustom" THEN "todo" ELSE "emit"
    [] st = "emit"       -> "return"

\* The driver is called with its options.
PipeInit ==
  /\ InitIdle
  /\ EmitIdle
  /\ AuxIdle
  /\ driver \in Drivers
  /\ compile_opt \in CompileOpts
  /\ driver = "main" =>
       compile_opt = [ts_flavor |-> "TsNum",
                      emit_config |-> [json |-> FALSE, js |-> FALSE]]
  /\ stage = "cache"
  /\ started = << >>
  /\ succeeded = {}
  /\ diagnostic = "none"
  /\ exit_code = "running"

\* match <stage call> { Ok(x) => x, Err(e) => { eprintln!(..); exit(1) } }
RunStage(st) ==
  /\ stage = st
  /\ started' = Append(started, st)
  /\ \E outcome \in Outcomes(st) :
       CASE outcome = "Ok" ->
              /\ succeeded' = succeeded \cup {st}
              /\ stage' = AfterOk(driver, compile_opt, st)
              /\ UNCHANGED <<diagnostic, exit_code>>
         [] outcome = "Err" ->
              /\ diagnostic' = ErrorMessage(driver, st)
              /\ exit_code' = "1"
              /\ stage' = "exit"
              /\ UNCHANGED succeeded
         [] outcome = "Panic" ->
              /\ diagnostic' = "panicked"
              /\ exit_code' = "101"
              /\ stage' = "exit"
              /\ UNCHANGED succeeded
  /\ UNCHANGED <<driver, compile_opt, initVars, emitVars, auxVars>>

\* bind_init::init
StageCache == RunStage("cache")

\* bind_graph_init::init
StageGraphInit == RunStage("graph_init")

\* graph_reduce::reduce
StageReduce == RunStage("reduce")

\* typify_graph::typify
StageTypify == RunStage("typify")

\* ts_flavor_detector::detect, then ts_flavor_compat::compatible
StageCompat == RunStage("compat")

\* emit::ts_num_emit or emit::ts_full_emit
StageEmit == RunStage("emit")

\* TsFlavor::TsCustom(..) => todo!("TsCustom")
TsCustomTodo ==
  /\ stage = "todo"
  /\ diagnostic' = "panicked"
  /\ exit_code' = "101"
  /\ stage' = "exit"
  /\ UNCHANGED <<driver, compile_opt, started, succeeded, initVars, emitVars, auxVars>>

\* The closure ends and the driver returns: the process ends normally.
PipeReturn ==
  /\ stage = "return"
  /\ exit_code' = "0"
  /\ stage' = "exit"
  /\ UNCHANGED <<driver, compile_opt, started, succeeded, diagnostic,
                 initVars, emitVars, auxVars>>

PipeNext ==
  \/ StageCache
  \/ StageGraphInit
  \/ StageReduce
  \/ StageTypify
  \/ StageCompat
  \/ StageEmit
  \/ TsCustomTodo
  \/ PipeReturn

SpecPipeline == PipeInit /\ [][PipeNext]_vars

(***************************************************************************)
(* init as a function of the cache and of the order in which cache.iter()  *)
(* yields the modules, for the comparison of processing orders.            *)
(***************************************************************************)
\* The bound of the comparison: the number of top-level items of a cache.
MaxBody == 2

\* The items of the compared caches: imports, exports and exported
\* declarations of one specifier or declaration over the name "A" without
\* alias; one declaration kind for each combination of the namespaces, a
\* default import that fails with an error and a TsModule that panics.
OrderItems ==
  {it \in ModuleItems(1) :
     /\ it.type # "Stmt"
     /\ \A k \in 1 .. Len(it.specifiers) :
          /\ it.type = "Import" =>
               /\ it.specifiers[k].local = "A"
               /\ it.specifiers[k].imported = NoName
               /\ it.specifiers[k].kind \in {"Named", "Default"}
          /\ it.type = "ExportNamed" =>
               /\ it.specifiers[k].orig = "A"
               /\ it.specifiers[k].exported = NoName
               /\ it.specifiers[k].kind = "Named"
     /\ it.type = "ExportDecl" =>
          it.decl.kind \in {"Class", "Fn", "TsInterface", "TsModule"}
     /\ it.decl.ident \in {NoName, "A"}}

\* The bodies of n items over OrderItems.
RECURSIVE BodiesOf(_)
BodiesOf(n) ==
  IF n <= 0 THEN {<< >>}
  ELSE {Append(q, x) : q \in BodiesOf(n - 1), x \in OrderItems}

\* ParsedModuleCache: every module with its body, MaxBody items in all.
Caches ==
  UNION {{[p \in Paths |-> IF p = "a" THEN x ELSE y] :
            x \in BodiesOf(ij[1]), y \in BodiesOf(ij[2])} :
           ij \in {ij \in (0 .. MaxBody) \X (0 .. MaxBody) :
                     ij[1] + ij[2] <= MaxBody}}

\* The orders in which cache.iter() can yield the modules.
Orders ==
  {o \in [1 .. Cardinality(Paths) -> Paths] :
     \A i, j \in DOMAIN o : o[i] = o[j] => i = j}

\* for item in module_data.ast { session.process_module_item(item)? }
RECURSIVE process_items(_, _, _)
process_items(s, body, i) ==
  IF i > Len(body) THEN Ok(s)
  ELSE LET r == process_module_item(s, body[i], i)
       IN  IF r.status = "Ok" THEN process_items(r.session, body, i + 1)
           ELSE r

\* What init returns: Ok(graph), Err(error), or a panic.
InitOk(g) == [status |-> "ok", graph |-> g, error |-> NoError]
InitFailed(r) ==
  [status |-> IF r.status = "Err" THEN "err" ELSE "panic",
   graph |-> EmptyGraph, error |-> r.error]

\* A session that starts from the rooted sets of the modules already in the
\* graph instead of empty ones.
session_init_shared_rooted(g, module_data, body) ==
  LET s0 == [NewSession(module_data) EXCEPT
               !.rooted_types =
                 UNION {g.nodes[p].rooted_export_types : p \in DOMAIN g.nodes},
               !.rooted_values =
                 UNION {g.nodes[p].rooted_export_values : p \in DOMAIN g.nodes}]
      r == process_items(s0, body, 1)
  IN  IF r.status = "Ok" THEN InitOk(insert_session(g, r.session))
      ELSE InitFailed(r)

\* NodeInitSession::init(&mut graph, cache, module_data)
session_init(g, module_data, body) ==
  LET r == process_items(NewSession(module_data), body, 1)
  IN  IF r.status = "Ok" THEN InitOk(insert_session(g, r.session))
      ELSE InitFailed(r)

\* for (_, module_data) in cache.iter() { NodeInitSession::init(..)? }
RECURSIVE init_from(_, _, _, _)
init_from(g, c, order, i) ==
  IF i > Len(order) THEN InitOk(g)
  ELSE LET r == session_init(g, ModuleData(order[i]), c[order[i]])
       IN  IF r.status = "ok" THEN init_from(r.graph, c, order, i + 1)
           ELSE r

\* init(&cache), with cache.iter() yielding the modules in `order`.
init(c, order) == init_from(EmptyGraph, c, order, 1)

\* A cache is built.
OrderInit ==
  /\ InitIdle
  /\ EmitIdle
  /\ PipeIdle
  /\ MergeIdle
  /\ bodies \in Caches
  /\ runs = << >>

\* init runs on the cache, its iterator yielding the modules in `order`.
RunInit(order) ==
  /\ order \notin DOMAIN runs
  /\ runs' = Insert(runs, order, init(bodies, order))
  /\ UNCHANGED <<bodies, initVars, emitVars, pipeVars, mergeVars>>

OrderNext == \E order \in Orders : RunInit(order)

SpecOrder == OrderInit /\ [][OrderNext]_vars

(***************************************************************************)
(* ModuleInfo (structures.rs): the exports of a module, by namespace.      *)
(***************************************************************************)
\* The descriptors of the exports: a Type with its origin module.
InfoTypes == {Type(p) : p \in Paths}

\* The maps export key -> Type.
ExportMaps ==
  UNION {[keys -> InfoTypes] : keys \in SUBSET Names}

\* The ModuleInfo values another module can have.
ModuleInfos == [exported_types : ExportMaps, exported_values : ExportMaps]

\* self.exported_values.insert(export_key, typ)
export_value(info, export_key, typ) ==
  [info EXCEPT !.exported_values = Insert(@, export_key, typ)]

\* self.exported_types.insert(export_key, typ)
export_type(info, export_key, typ) ==
  [info EXCEPT !.exported_types = Insert(@, export_key, typ)]

\* The key is in neither map of other: merge_export panics.
unknown_export_key(other, other_key) ==
  /\ other_key \notin DOMAIN other.exported_values
  /\ other_key \notin DOMAIN other.exported_types

\* merge_export on a key that other exports: both halves go under other_key.
merge_export(info, other, other_key, as_key) ==
  LET with_value ==
        IF other_key \in DOMAIN other.exported_values
        THEN export_value(info, other_key, other.exported_values[other_key])
        ELSE info
  IN  IF other_key \in DOMAIN other.exported_types
      THEN export_type(with_value, other_key, other.exported_types[other_key])
      ELSE with_value

\* for (k, v) in map.iter() { target.insert(k.clone(), v.clone()) }
insert_all(target, map) ==
  [k \in DOMAIN target \cup DOMAIN map |->
     IF k \in DOMAIN map THEN map[k] ELSE target[k]]

\* merge_all: every export of other is inserted into self.
merge_all(info, other) ==
  [exported_types |-> insert_all(info.exported_types, other.exported_types),
   exported_values |-> insert_all(info.exported_values, other.exported_values)]

\* ModuleInfo::new
MergeInit ==
  /\ InitIdle
  /\ EmitIdle
  /\ PipeIdle
  /\ OrderIdle
  /\ MergeIdle

ExportValue ==
  /\ merge_result = "ok"
  /\ \E k \in Names, t \in InfoTypes :
       module_info' = export_value(module_info, k, t)
  /\ call' = "export_value"
  /\ UNCHANGED <<other_info, merge_result, initVars, emitVars, pipeVars,
                 orderVars>>

ExportType ==
  /\ merge_result = "ok"
  /\ \E k \in Names, t \in InfoTypes :
       module_info' = export_type(module_info, k, t)
  /\ call' = "export_type"
  /\ UNCHANGED <<other_info, merge_result, initVars, emitVars, pipeVars,
                 orderVars>>

MergeExport ==
  /\ merge_result = "ok"
  /\ \E other \in ModuleInfos, other_key \in Names,
        as_key \in Names \cup {NoName} :
       /\ other_info' = other
       /\ IF unknown_export_key(other, other_key)
          THEN /\ merge_result' = "panic"
               /\ UNCHANGED module_info
          ELSE /\ module_info' = merge_export(module_info, other, other_key,
                                              as_key)
               /\ UNCHANGED merge_result
  /\ call' = "merge_export"
  /\ UNCHANGED <<initVars, emitVars, pipeVars, orderVars>>

MergeAll ==
  /\ merge_result = "ok"
  /\ \E other \in ModuleInfos :
       /\ other_info' = other
       /\ module_info' = merge_all(module_info, other)
  /\ call' = "merge_all"
  /\ UNCHANGED <<merge_result, initVars, emitVars, pipeVars, orderVars>>

MergeNext ==
  \/ ExportValue
  \/ ExportType
  \/ MergeExport
  \/ MergeAll

SpecMerge == MergeInit /\ [][MergeNext]_vars


(***************************************************************************)
(* Properties of graph initialisation.                                     *)
(***************************************************************************)
\* The step is process_module_item on item', in the session of both states.
Processed == idx' = idx + 1

\* The step processed item' and the item returned Ok.
ProcessedOk == Processed /\ result' = "running"

\* The edges the step appended to the export-edge list of the session.
NewExportEdges ==
  SubSeq(session'.export_edges, Len(session.export_edges) + 1,
         Len(session'.export_edges))

IsPrefix(xs, ys) ==
  Len(xs) <= Len(ys) /\ \A i \in 1 .. Len(xs) : xs[i] = ys[i]

\* The alias of an export specifier, or its original name.
AliasOrOrig(sp) == IF sp.exported = NoName THEN sp.orig ELSE sp.exported

\* C1: for `import { A as B } from "m"` followed by `export { B as C }`,
\* every export edge pushed for the specifier is Export::Named with the
\* source and src_key of the import and export_key = C, the export alias
\* (or the original name without an alias), never the local alias B of the
\* import when it differs.  (Stated for an export statement of one
\* specifier, so that every new edge is that specifier's.)
C1_LocalExportUsesExportAlias ==
  [][(/\ ProcessedOk
      /\ item'.type = "ExportNamed"
      /\ item'.src = NoSrc
      /\ Len(item'.specifiers) = 1)
     => LET sp == item'.specifiers[1]
        IN  \A i \in 1 .. Len(NewExportEdges) :
              LET e == NewExportEdges[i]
              IN  /\ e.variant = "Named"
                  /\ e.export_key = AliasOrOrig(sp)
                  /\ \E st \in {session.value_scope[sp.orig],
                                session.type_scope[sp.orig]} :
                       /\ st.tag = "Imported"
                       /\ e.source = st.source
                       /\ e.src_key = st.src_key]_vars

\* The first specifier of an import that is no named specifier, or 0.
FirstUnsupported(specifiers) ==
  IF \E k \in 1 .. Len(specifiers) : specifiers[k].kind # "Named"
  THEN CHOOSE k \in 1 .. Len(specifiers) :
         /\ specifiers[k].kind # "Named"
         /\ \A j \in 1 .. k - 1 : specifiers[j].kind = "Named"
  ELSE 0

\* C4: graph initialisation of a module with a default import specifier
\* returns an unsupported-feature error tagged DefaultImport, and of a module
\* with a namespace import specifier one tagged NamespaceImport; the error
\* carries the path of the module and the span of the specifier.
C4_ImportErrorTagged ==
  (item.type = "Import" /\ FirstUnsupported(item.specifiers) # 0)
    => LET k == FirstUnsupported(item.specifiers)
       IN  /\ result = "err"
           /\ error = BindGenError(
                        session.path,
                        IF item.specifiers[k].kind = "Default"
                        THEN "DefaultImport" ELSE "NamespaceImport",
                        Span(idx, k))

\* The names a declaration introduces.
DeclNames(decl) ==
  IF decl.kind = "Var"
  THEN {decl.decls[i].sym : i \in 1 .. Len(decl.decls)}
  ELSE {decl.ident}

\* The item is a local declaration that graph initialisation supports.
IsDecl(it) ==
  /\ it.type \in {"Stmt", "ExportDecl"}
  /\ it.decl.kind \in {"Class", "Fn", "Var", "TsInterface", "TsTypeAlias",
                       "TsEnum"}
  /\ \A i \in 1 .. Len(it.decl.decls) : it.decl.decls[i].pat = "Ident"

\* The item is an import of named specifiers only.
IsNamedImport(it) ==
  /\ it.type = "Import"
  /\ \A k \in 1 .. Len(it.specifiers) : it.specifiers[k].kind = "Named"

\* What the first specifier of an import with local name n stands for.
FirstImportOf(it, n, deps) ==
  LET k == CHOOSE k \in 1 .. Len(it.specifiers) :
             /\ it.specifiers[k].local = n
             /\ \A j \in 1 .. k - 1 : it.specifiers[j].local # n
      sp == it.specifiers[k]
  IN  Imported(deps[it.src],
               IF sp.imported = NoName THEN sp.local ELSE sp.imported, n)

\* The entry an item gives a name it introduces into a vacant scope.
WrittenBy(it, n, deps) ==
  IF it.type = "Import" THEN FirstImportOf(it, n, deps) ELSE Rooted

\* C5: within one module the entry a scope holds for a name is the state
\* written by the first item that introduced the name into that scope: a
\* step of the session leaves every occupied entry of both scopes as it is,
\* fills a vacant entry only with what its item writes, and a named import
\* or a declaration of a name that is already there raises no error.
C5_FirstDeclarationWins ==
  [][Processed
     => /\ \A n \in Names :
             /\ session.value_scope[n] # Vacant
                  => session'.value_scope[n] = session.value_scope[n]
             /\ session.type_scope[n] # Vacant
                  => session'.type_scope[n] = session.type_scope[n]
             /\ (session.value_scope[n] = Vacant
                   /\ session'.value_scope[n] # Vacant)
                  => session'.value_scope[n]
                       = WrittenBy(item', n, cache[session.path].dependencies)
             /\ (session.type_scope[n] = Vacant
                   /\ session'.type_scope[n] # Vacant)
                  => session'.type_scope[n]
                       = WrittenBy(item', n, cache[session.path].dependencies)
        /\ (IsDecl(item') \/ IsNamedImport(item')) => result' = "running"]_vars

\* A later declaration of a name did not replace the import of that name.
C5_Witness ==
  /\ result = "running"
  /\ session # NoSession
  /\ IsDecl(item)
  /\ item.decl.kind = "Class"
  /\ session.value_scope[item.decl.ident].tag = "Imported"
  /\ session.type_scope[item.decl.ident].tag = "Imported"

ValueKinds == {"Class", "Fn", "Var"}

TypeKinds == {"Class", "TsInterface", "TsTypeAlias", "TsEnum"}

\* A scope after a declaration of the names S: Rooted where it was vacant.
Declared(scope, S) ==
  [n \in Names |-> IF n \in S /\ scope[n] = Vacant THEN Rooted ELSE scope[n]]

\* C6: a local declaration is classified by its kind and the namespaces stay
\* independent.  A class, function or variable writes Rooted under its name
\* into the value scope (where the name is vacant) and, when exported, its
\* name into rooted_export_values; a class, interface, type alias or enum
\* does the same in the type scope and rooted_export_types; a declaration
\* leaves the scope and the rooted set of a namespace it is not of unchanged,
\* and leaves the edge lists unchanged.
C6_DeclarationNamespaces ==
  [][(Processed /\ IsDecl(item'))
     => LET d == item'.decl
            S == DeclNames(d)
            exported == IF item'.type = "ExportDecl" THEN S ELSE {}
        IN  /\ session'.value_scope
                 = IF d.kind \in ValueKinds
                   THEN Declared(session.value_scope, S)
                   ELSE session.value_scope
            /\ session'.type_scope
                 = IF d.kind \in TypeKinds
                   THEN Declared(session.type_scope, S)
                   ELSE session.type_scope
            /\ session'.rooted_values
                 = IF d.kind \in ValueKinds
                   THEN session.rooted_values \cup exported
                   ELSE session.rooted_values
            /\ session'.rooted_types
                 = IF d.kind \in TypeKinds
                   THEN session.rooted_types \cup exported
                   ELSE session.rooted_types
            /\ session'.export_edges = session.export_edges
            /\ session'.import_edges = session.import_edges]_vars

\* A function N and an interface N of one module are both Rooted, and the
\* exported interface is a rooted type and no rooted value.
C6_Witness ==
  /\ result = "running"
  /\ session # NoSession
  /\ item.type = "ExportDecl"
  /\ item.decl.kind = "TsInterface"
  /\ session.value_scope[item.decl.ident] = Rooted
  /\ session.type_scope[item.decl.ident] = Rooted
  /\ session.rooted_types = {item.decl.ident}
  /\ session.rooted_values = {}

\* The item is `export { .. }` without `from`, of named specifiers.
IsNamedExportLocal(it) ==
  /\ it.type = "ExportNamed"
  /\ it.src = NoSrc
  /\ \A k \in 1 .. Len(it.specifiers) : it.specifiers[k].kind = "Named"

\* The specifiers of an export statement whose name has a given state in a
\* scope.
WithTag(specifiers, scope, tag) ==
  {k \in 1 .. Len(specifiers) : scope[specifiers[k].orig].tag = tag}

\* C7: for `export { X as Y }` without `from` the two scopes are consulted
\* independently: Y (not X) enters rooted_export_values iff X is Rooted in
\* the value scope, Y enters rooted_export_types iff X is Rooted in the type
\* scope, an edge is pushed only for a namespace where X is Imported, so a
\* specifier yields at most two results and no edge for a namespace where X
\* is Rooted.  The scopes and the import edges stay as they are.
C7_LocalExportPerNamespace ==
  [][(Processed /\ IsNamedExportLocal(item'))
     => LET sps == item'.specifiers
            rv == WithTag(sps, session.value_scope, "Rooted")
            rt == WithTag(sps, session.type_scope, "Rooted")
            iv == WithTag(sps, session.value_scope, "Imported")
            it == WithTag(sps, session.type_scope, "Imported")
        IN  /\ result' = "running"
            /\ session'.rooted_values
                 = session.rooted_values \cup {AliasOrOrig(sps[k]) : k \in rv}
            /\ session'.rooted_types
                 = session.rooted_types \cup {AliasOrOrig(sps[k]) : k \in rt}
            /\ IsPrefix(session.export_edges, session'.export_edges)
            /\ Len(NewExportEdges) = Cardinality(iv) + Cardinality(it)
            /\ Len(NewExportEdges) + Cardinality(rv) + Cardinality(rt)
                 <= 2 * Len(sps)
            /\ session'.value_scope = session.value_scope
            /\ session'.type_scope = session.type_scope
            /\ session'.import_edges = session.import_edges]_vars

\* `function A; export { A as B }`: B, not A, is a rooted value, nothing is
\* a rooted type and no edge is pushed.
C7_Witness ==
  /\ result = "running"
  /\ session # NoSession
  /\ IsNamedExportLocal(item)
  /\ Len(item.specifiers) = 1
  /\ item.specifiers[1].exported # NoName
  /\ session.value_scope[item.specifiers[1].orig] = Rooted
  /\ session.type_scope[item.specifiers[1].orig] = Vacant
  /\ session.rooted_values = {item.specifiers[1].exported}
  /\ session.rooted_types = {}
  /\ session.export_edges = << >>

\* The item is `export { .. } from "m"` with named specifiers only.
IsNamedExportFrom(it) ==
  /\ it.type = "ExportNamed"
  /\ it.src # NoSrc
  /\ \A k \in 1 .. Len(it.specifiers) : it.specifiers[k].kind = "Named"

\* C8: for `export { .. } from "m"` graph initialisation pushes exactly one
\* Export::Named edge per named specifier, with source = the canonical path
\* the dependency map of the module gives for "m", src_key = the original
\* name, export_key = the alias or else the original name; it adds nothing
\* to either scope or rooted set.
C8_ExportFromEdges ==
  [][(Processed /\ IsNamedExportFrom(item'))
     => LET sps == item'.specifiers
            source == cache[session.path].dependencies[item'.src]
        IN  /\ result' = "running"
            /\ session'.export_edges
                 = session.export_edges
                     \o [k \in 1 .. Len(sps) |->
                           [variant |-> "Named", source |-> source,
                            src_key |-> sps[k].orig,
                            export_key |-> AliasOrOrig(sps[k])]]
            /\ session'.value_scope = session.value_scope
            /\ session'.type_scope = session.type_scope
            /\ session'.rooted_values = session.rooted_values
            /\ session'.rooted_types = session.rooted_types
            /\ session'.import_edges = session.import_edges]_vars

\* `export { A as B } from "./b"` in module a pushed its one edge.
C8_Witness ==
  /\ result = "running"
  /\ session # NoSession
  /\ IsNamedExportFrom(item)
  /\ item.src = "./b"
  /\ session.path = "a"
  /\ Len(item.specifiers) = 1
  /\ item.specifiers[1].exported \notin {NoName, item.specifiers[1].orig}
  /\ Len(session.export_edges) = 1
  /\ session.export_edges[1].source = "b"
  /\ session.export_edges[1].src_key = item.specifiers[1].orig
  /\ session.export_edges[1].export_key = item.specifiers[1].exported

\* An edge as the place it points at: its variant, source and src_key.
Target(e) == [variant |-> e.variant, source |-> e.source,
              src_key |-> e.src_key]

\* The places one export specifier points at, in the order of its edges:
\* for `from "m"` the name in m; without `from` what the name is imported
\* as in the value scope, then in the type scope.
SpecifierTargets(s, src, sp, deps) ==
  LET via(st) == IF st.tag = "Imported"
                 THEN <<[variant |-> "Named", source |-> st.source,
                         src_key |-> st.src_key]>>
                 ELSE << >>
  IN  IF src # NoSrc
      THEN <<[variant |-> "Named", source |-> deps[src],
              src_key |-> sp.orig]>>
      ELSE via(s.value_scope[sp.orig]) \o via(s.type_scope[sp.orig])

\* The places the specifiers k .. of an export statement point at, in the
\* order of the specifiers.
RECURSIVE StatementTargets(_, _, _, _, _)
StatementTargets(s, src, specifiers, deps, k) ==
  IF k > Len(specifiers) THEN << >>
  ELSE SpecifierTargets(s, src, specifiers[k], deps)
         \o StatementTargets(s, src, specifiers, deps, k + 1)

\* The places a top-level item exports from, in source order.
ItemTargets(s, it, deps) ==
  CASE it.type = "ExportAll" ->
         <<[variant |-> "All", source |-> deps[it.src], src_key |-> NoName]>>
    [] IsNamedExportFrom(it) \/ IsNamedExportLocal(it) ->
         StatementTargets(s, it.src, it.specifiers, deps, 1)
    [] OTHER -> << >>

\* C9: the export-edge list of every module is in source order.  Every item
\* appends its edges to the list of the session, behind the edges of the
\* earlier items and in the order of its specifiers, an `export * from` its
\* All edge at the place of its statement; the list enters the graph as it
\* is when the body ends, and no later step reorders or removes an edge of
\* a list.
C9_ExportEdgesInSourceOrder ==
  [][/\ Processed
        => /\ IsPrefix(session.export_edges, session'.export_edges)
           /\ [i \in 1 .. Len(NewExportEdges) |-> Target(NewExportEdges[i])]
                = ItemTargets(session, item',
                              cache[session.path].dependencies)
           /\ graph' = graph
     /\ (session # NoSession /\ session' = NoSession)
        => /\ session.path \notin DOMAIN graph.export_edges
           /\ DOMAIN graph'.export_edges
                = DOMAIN graph.export_edges \cup {session.path}
           /\ graph'.export_edges[session.path] = session.export_edges
           /\ \A p \in DOMAIN graph.export_edges :
                graph'.export_edges[p] = graph.export_edges[p]
     /\ (session = NoSession \/ session' # NoSession)
        => graph'.export_edges = graph.export_edges]_vars

\* `export * from "./b"; export { A } from "./a"`: the list of the module in
\* the graph holds the All edge, then the Named edge.
C9_Witness ==
  /\ result = "ok"
  /\ \E p \in DOMAIN graph.export_edges :
       /\ Len(graph.export_edges[p]) = 2
       /\ graph.export_edges[p][1] = ExportAll("b")
       /\ graph.export_edges[p][2].variant = "Named"
       /\ graph.export_edges[p][2].source = "a"

\* The sources of a list of edges.
Sources(edges) == {edges[i].source : i \in 1 .. Len(edges)}

\* C10: after a successful graph initialisation over a cache whose
\* dependency maps point only at modules of the cache, the source of every
\* export edge and of every import edge of every module is a key of the
\* node map and of the export-edge map of the graph.
C10_EdgeSourcesAreNodes ==
  result = "ok"
    => /\ DOMAIN graph.nodes = DOMAIN cache
       /\ \A p \in DOMAIN graph.export_edges :
            Sources(graph.export_edges[p])
              \subseteq DOMAIN graph.nodes \cap DOMAIN graph.export_edges
       /\ \A p \in DOMAIN graph.import_edges :
            Sources(graph.import_edges[p])
              \subseteq DOMAIN graph.nodes \cap DOMAIN graph.export_edges

\* Initialisation succeeded on modules a and b, a importing from b and b
\* re-exporting from a.
C10_Witness ==
  /\ result = "ok"
  /\ "b" \in Sources(graph.import_edges["a"])
  /\ "a" \in Sources(graph.export_edges["b"])

(***************************************************************************)
(* Properties of emission.                                                 *)
(***************************************************************************)
\* Where the first export of module p is in an output, 0 if nowhere.
FirstEmitted(out, p) ==
  IF \E i \in 1 .. Len(out) : out[i].typ.origin = p
  THEN CHOOSE i \in 1 .. Len(out) :
         /\ out[i].typ.origin = p
         /\ \A j \in 1 .. i - 1 : out[j].typ.origin # p
  ELSE 0

\* Every edge to s1 is before every edge to s2 in an edge list, which names
\* both.
NamedBefore(edges, s1, s2) ==
  /\ \E i \in 1 .. Len(edges) : export_source(edges[i]) = s1
  /\ \E j \in 1 .. Len(edges) : export_source(edges[j]) = s2
  /\ \A i, j \in 1 .. Len(edges) :
       (export_source(edges[i]) = s1 /\ export_source(edges[j]) = s2)
         => i < j

\* C2: the traversal visits the children of a module in the order of the
\* module's export-edge list: when the list names distinct, not yet visited
\* sources s1 before s2, s1 is emitted before s2.  (Stated for the root,
\* at whose visit no other module is visited yet.)
C2_ChildrenInEdgeOrder ==
  (pc # "traverse" /\ options.json)
    => \A s1, s2 \in TypedPaths \ {Root} :
         (s1 # s2 /\ NamedBefore(typed_graph.export_edges[Root], s1, s2))
           => FirstEmitted(json_output, s1) < FirstEmitted(json_output, s2)

\* C3: when emission fails at any step, no output artifact exists
\* afterwards: neither an `.arr.json` file written before the JS shim
\* failed, nor a JSON file created before its serialisation failed.
C3_NoArtifactAfterFailure ==
  emit_result = "err" => files = NoFiles

(***************************************************************************)
(* Properties of the pipeline drivers.                                     *)
(***************************************************************************)
\* The stage whose name a diagnostic carries, "none" when it carries none.
NamedStage(msg) ==
  CASE msg = "module cache error"    -> "cache"
    [] msg = "graph init error"      -> "graph_init"
    [] msg = "graph reduction error" -> "reduce"
    [] msg = "typify error"          -> "typify"
    [] msg = "Compatibility errors:" -> "compat"
    [] msg = "json-emit error"       -> "emit"
    [] OTHER                         -> "none"

\* An Err arm of the driver printed its diagnostic.
ErrorReported == diagnostic \notin {"none", "panicked"}

\* C11: the stages start in the order module cache, graph init, graph
\* reduction, typification, flavor compatibility, emission; when a stage
\* reports an error the process exits with a non-zero code after a
\* diagnostic naming that stage and no later stage starts; emission starts
\* only after every earlier stage, the compatibility check included,
\* succeeded; the exit code is 0 only when every stage succeeded.
C11_PipelineStages ==
  /\ IsPrefix(started, StageOrder)
  /\ \A i \in 1 .. Len(started) :
       started[i] \notin succeeded => i = Len(started)
  /\ ErrorReported =>
       /\ exit_code \notin {"running", "0"}
       /\ started # << >>
       /\ started[Len(started)] \notin succeeded
       /\ NamedStage(diagnostic) = started[Len(started)]
  /\ (\E i \in 1 .. Len(started) : started[i] = "emit") =>
       Stages \ {"emit"} \subseteq succeeded
  /\ exit_code = "0" => succeeded = Stages

\* The same contract for the gen driver of generate.rs alone.
GenKeepsPipelineContract == driver = "gen" => C11_PipelineStages

\* gen ran every stage and the process ended with exit code 0.
GenSucceeded == driver = "gen" /\ exit_code = "0" /\ succeeded = Stages

(***************************************************************************)
(* Properties of the processing order.                                     *)
(***************************************************************************)
\* C12: for the same cache, any two processing orders of its modules either
\* both fail or both return Ok with the same graph: the same node map with
\* the same rooted sets, and the same ordered import and export edge list
\* for every module.
C12_OrderIndependent ==
  \A o1, o2 \in DOMAIN runs :
    /\ (runs[o1].status = "ok") <=> (runs[o2].status = "ok")
    /\ runs[o1].status = "ok" => runs[o1].graph = runs[o2].graph

\* Both orders ran on a cache whose modules both export and in which one
\* module names the other, and init returned Ok.
C12_Witness ==
  /\ DOMAIN runs = Orders
  /\ \A o \in Orders : runs[o].status = "ok"
  /\ \E o \in Orders :
       /\ \A p \in Paths : bodies[p] # << >>
       /\ runs[o].graph.nodes["a"].rooted_export_types # {}
       /\ runs[o].graph.export_edges["b"] # << >>
       /\ runs[o].graph.export_edges["b"][1].source = "a"

(***************************************************************************)
(* Properties of the emit traversal.                                       *)
(***************************************************************************)
\* The modules reachable from the paths of S through export edges.
RECURSIVE ReachableFrom(_)
ReachableFrom(S) ==
  LET sources(p) == {export_source(typed_graph.export_edges[p][i]) :
                       i \in 1 .. Len(typed_graph.export_edges[p])}
      next == S \cup UNION {sources(p) : p \in S}
  IN  IF next = S THEN S ELSE ReachableFrom(next)

\* The rooted exports of module p, as entries of an output.
RootedEntries(p) ==
  LET node == typed_graph.nodes[p]
  IN  {[ns |-> "type", export_key |-> k, typ |-> node.rooted_export_types[k]] :
         k \in DOMAIN node.rooted_export_types}
        \cup {[ns |-> "value", export_key |-> k,
                typ |-> node.rooted_export_values[k]] :
                 k \in DOMAIN node.rooted_export_values}

\* How often entry e is in the output.
Occurrences(out, e) == Cardinality({i \in DOMAIN out : out[i] = e})

\* The output holds the rooted exports of every module reachable from the
\* root once each, and nothing else.
EmittedOnce(out) ==
  /\ \A p \in ReachableFrom({Root}) :
       \A e \in RootedEntries(p) : Occurrences(out, e) = 1
  /\ \A i \in DOMAIN out :
       \E p \in ReachableFrom({Root}) : out[i] \in RootedEntries(p)

\* C13: on any typed graph whose edge sources are nodes, cycles and
\* repeated sources included, traverse terminates, and when it has, each
\* enabled output holds the rooted exports of every module reachable from
\* the root through export edges exactly once and nothing of a module that
\* is not reachable.
C13_TraverseTerminates ==
  /\ <>(pc # "traverse")
  /\ [](pc # "traverse" =>
         /\ options.json => EmittedOnce(json_output)
         /\ options.js => EmittedOnce(js_output))

\* traverse has returned on a graph with a cycle through the root, a source
\* named twice and a module that is not reachable, both outputs enabled.
C13_Witness ==
  /\ pc # "traverse"
  /\ options.json /\ options.js
  /\ json_output # << >>
  /\ ReachableFrom({Root}) # TypedPaths
  /\ \E p \in ReachableFrom({Root}) \ {Root} :
       \E i \in 1 .. Len(typed_graph.export_edges[p]) :
         export_source(typed_graph.export_edges[p][i]) = Root
  /\ \E i, j \in 1 .. Len(typed_graph.export_edges[Root]) :
       /\ i # j
       /\ export_source(typed_graph.export_edges[Root][i])
            = export_source(typed_graph.export_edges[Root][j])

\* The namespace a reduced export edge re-exports in.
EdgeNamespace(e) == IF e.variant = "NamedType" THEN "type" ELSE "value"

\* The rooted map of a node for a namespace.
RootedOf(node, ns) ==
  IF ns = "type" THEN node.rooted_export_types ELSE node.rooted_export_values

\* The reduced export edges of the root in namespace ns.
RootEdges(ns) ==
  {typed_graph.export_edges[Root][i] :
     i \in {j \in 1 .. Len(typed_graph.export_edges[Root]) :
              EdgeNamespace(typed_graph.export_edges[Root][j]) = ns}}

\* The names the root exposes in namespace ns.
Exposed(ns) ==
  DOMAIN RootedOf(typed_graph.nodes[Root], ns)
    \cup {e.export_key : e \in RootEdges(ns)}

\* The entry is an export of the root: one of its rooted exports, or the
\* target of one of its export edges under the edge's export_key.
ExportOfRoot(entry) ==
  \/ entry \in RootedEntries(Root)
  \/ \E e \in RootEdges(entry.ns) :
       /\ entry.export_key = e.export_key
       /\ e.src_key \in DOMAIN RootedOf(typed_graph.nodes[e.source], entry.ns)
       /\ entry.typ = RootedOf(typed_graph.nodes[e.source], entry.ns)[e.src_key]

\* The names of the output in namespace ns.
EmittedNames(out, ns) ==
  {out[i].export_key : i \in {j \in DOMAIN out : out[j].ns = ns}}

\* C14: when traverse has returned, the names of the JSON output in each
\* namespace are exactly the names the root exposes there (its rooted keys
\* and the export_key of its reduced export edges), and every entry is an
\* export of the root: a rooted export of a dependency that the root does
\* not re-export is not in the output.
C14_OnlyRootExportsEmitted ==
  (pc # "traverse" /\ options.json) =>
    /\ \A ns \in {"type", "value"} : EmittedNames(json_output, ns) = Exposed(ns)
    /\ \A i \in DOMAIN json_output : ExportOfRoot(json_output[i])

(***************************************************************************)
(* Properties of unsupported declarations and unresolved local exports.    *)
(***************************************************************************)
\* The item declares a TypeScript namespace/module, or a variable whose
\* pattern is not an identifier.
HasUnsupportedDecl(it) ==
  \/ it.decl.kind = "TsModule"
  \/ /\ it.decl.kind = "Var"
     /\ \E k \in 1 .. Len(it.decl.decls) : it.decl.decls[k].pat # "Ident"

\* C15: processing an item with a namespace/module declaration, or with a
\* variable declaration whose pattern is not a simple identifier, ends graph
\* initialisation with an unsupported-feature error value that carries the
\* module's path, not with a crash.
C15_UnsupportedDeclIsError ==
  [][(Processed /\ HasUnsupportedDecl(item'))
     => /\ result' = "err"
        /\ error'.kind = "UnsupportedFeature"
        /\ error'.module_path = session'.path]_vars

\* No specifier of the export statement names something the scopes hold.
Unresolved(it, s) ==
  \A k \in 1 .. Len(it.specifiers) :
    /\ s.value_scope[it.specifiers[k].orig] = Vacant
    /\ s.type_scope[it.specifiers[k].orig] = Vacant

\* The step leaves the export edges and the rooted sets as they are.
ExportsUnchanged ==
  /\ session'.export_edges = session.export_edges
  /\ session'.rooted_values = session.rooted_values
  /\ session'.rooted_types = session.rooted_types

\* C17: an `export { X }` without `from` whose names are in neither scope
\* when it is processed adds no export edge and no rooted entry and is no
\* error; an import or a declaration that is not exported, processed later,
\* adds no export edge and no rooted entry either, so X stays unexported
\* when it is declared or imported after the export statement.
C17_UnresolvedLocalExportIsSilent ==
  [][/\ (Processed /\ IsNamedExportLocal(item') /\ Unresolved(item', session))
        => /\ result' = "running"
           /\ error' = NoError
           /\ ExportsUnchanged
           /\ session'.value_scope = session.value_scope
           /\ session'.type_scope = session.type_scope
     /\ (Processed /\ item'.type \in {"Import", "Stmt"})
        => ExportsUnchanged]_vars

\* `export { A }` was processed in a module that holds no A yet; nothing is
\* exported, initialisation goes on and a declaration of A can follow.
C17_Witness ==
  /\ session # NoSession
  /\ result = "running"
  /\ idx = 1
  /\ size < MaxSize
  /\ IsNamedExportLocal(item)
  /\ Unresolved(item, session)
  /\ session.export_edges = << >>
  /\ session.rooted_values = {}
  /\ session.rooted_types = {}

(***************************************************************************)
(* Properties of ModuleInfo.                                               *)
(***************************************************************************)
\* The exports of map are in map' with the same descriptors.
KeepsOwn(map, merged) ==
  \A k \in DOMAIN map : k \in DOMAIN merged /\ merged[k] = map[k]

\* C16: merge_all leaves every export key that self already holds in a
\* namespace with its own descriptor and adds only the keys of other that
\* self does not hold in that namespace.
C16_MergeAllKeepsOwnExports ==
  [][call' = "merge_all"
     => /\ KeepsOwn(module_info.exported_types, module_info'.exported_types)
        /\ KeepsOwn(module_info.exported_values, module_info'.exported_values)
        /\ DOMAIN module_info'.exported_types
             = DOMAIN module_info.exported_types
                 \cup DOMAIN other_info'.exported_types
        /\ DOMAIN module_info'.exported_values
             = DOMAIN module_info.exported_values
                 \cup DOMAIN other_info'.exported_values]_vars

====
